---- MODULE Spec2Model ----
(***************************************************************************)
(* Model of syncthing-notifier.py: the monitor loop (monitor_events), the  *)
(* cursor file (load_last_event_id / save_last_event_id), the notifier     *)
(* sink (send_notification), the process entry point (main) and its signal *)
(* handler, together with the daemon's event stream they consume.          *)
(***************************************************************************)
EXTENDS Integers, Sequences, FiniteSets, TLC

\* ------------------------------------------------------------------ bounds
\* Number of events the daemon emits in one behaviour.
MaxEvents == 2

\* ------------------------------------------------------- state of the model
VARIABLES
    user_config,          \* the preferences main() loaded (read-only afterwards)
    stream,               \* every event the daemon has emitted so far, ids 1..Len
    cursorFile,           \* LAST_EVENT_ID_PATH: [exists, content]
    pc,                   \* position of the process in main / monitor_events
    last_event_id,        \* monitor_events' running cursor
    reqSince,             \* the since= value of the last request of this run
    events,               \* the batch in hand (empty once it is not read again)
    idx,                  \* index in events of the next event of the for loop
    seen_notifications,   \* the per-batch set of dedup keys
    dispatched,           \* send_notification calls made for the current batch
    sleepDur,             \* argument of the time.sleep in progress, else 0
    startCursor,          \* what load_last_event_id returned in this run
    handled,              \* ids whose loop body ran to its end (any run)
    begunPast,            \* greatest id whose loop body an earlier run entered
    durable               \* the cursor the last completed save wrote

vars == << user_config, stream, cursorFile, pc, last_event_id, reqSince,
           events, idx, seen_notifications, dispatched, sleepDur,
           startCursor, handled, begunPast, durable >>

\* --------------------------------------------------------- small utilities
Max(S) == CHOOSE x \in S : \A y \in S : y <= x

\* dict.get(k, default)
Get(d, k, default) == IF k \in DOMAIN d THEN d[k] ELSE default

\* Python's  sub in s  for strings
Contains(s, sub) ==
    \E i \in 1..(Len(s) - Len(sub) + 1) : SubSeq(s, i, i + Len(sub) - 1) = sub

\* pathlib: Path(item).name, the last component of the path
PathName(item) ==
    LET ends == {i \in 1..Len(item) : SubSeq(item, i, i) # "/"}
    IN  IF ends = {} THEN ""
        ELSE LET e == Max(ends)
                 slashes == {i \in 1..e : SubSeq(item, i, i) = "/"}
                 b == IF slashes = {} THEN 1 ELSE Max(slashes) + 1
             IN  SubSeq(item, b, e)

\* ------------------------------------------------------------ cursor store
Digits == <<"0", "1", "2", "3", "4", "5", "6", "7", "8", "9">>

DigitVal(c) == (CHOOSE i \in 1..10 : Digits[i] = c) - 1

IsDigit(c) == \E i \in 1..10 : Digits[i] = c

RECURSIVE IntToStr(_)
\* str(event_id) for a non-negative integer
IntToStr(n) ==
    IF n < 10 THEN Digits[n + 1]
    ELSE IntToStr(n \div 10) \o Digits[(n % 10) + 1]

RECURSIVE StrToNat(_)
StrToNat(s) ==
    IF Len(s) = 0 THEN 0
    ELSE 10 * StrToNat(SubSeq(s, 1, Len(s) - 1)) + DigitVal(SubSeq(s, Len(s), Len(s)))

IsWhite(c) == c \in {" ", "\n", "\t"}

RECURSIVE Strip(_)
\* str.strip()
Strip(s) ==
    IF Len(s) = 0 THEN s
    ELSE IF IsWhite(SubSeq(s, 1, 1)) THEN Strip(SubSeq(s, 2, Len(s)))
    ELSE IF IsWhite(SubSeq(s, Len(s), Len(s))) THEN Strip(SubSeq(s, 1, Len(s) - 1))
    ELSE s

\* int(text) succeeds: an optional sign followed by at least one digit (the
\* digit-grouping underscores and non-ASCII digits int() also accepts occur in
\* no content used here)
IsIntText(s) ==
    LET body == IF Len(s) > 0 /\ SubSeq(s, 1, 1) \in {"+", "-"}
                THEN SubSeq(s, 2, Len(s)) ELSE s
    IN  /\ Len(body) > 0
        /\ \A i \in 1..Len(body) : IsDigit(SubSeq(body, i, i))

ParseInt(s) ==
    IF SubSeq(s, 1, 1) = "-" THEN 0 - StrToNat(SubSeq(s, 2, Len(s)))
    ELSE IF SubSeq(s, 1, 1) = "+" THEN StrToNat(SubSeq(s, 2, Len(s)))
    ELSE StrToNat(s)

\* load_last_event_id() on a given state of the cursor file
load_last_event_id(file) ==
    IF file.exists
    THEN IF IsIntText(Strip(file.content)) THEN ParseInt(Strip(file.content))
         ELSE 0                                   \* except ValueError
    ELSE 0

\* save_last_event_id: the file right after open(LAST_EVENT_ID_PATH, 'w')
OpenedForWrite == [exists |-> TRUE, content |-> ""]

\* A variant that writes the last two digits only
WrittenTwoDigits(event_id) == [exists |-> TRUE, content |-> IntToStr(event_id % 100)]

\* save_last_event_id: the file after f.write(str(event_id)) and close
Written(event_id) == [exists |-> TRUE, content |-> IntToStr(event_id)]


\* ------------------------------------------------------- preferences, events
\* The argument of the time.sleep of monitor_events' except Exception branch
ExceptionSleep == 5

\* The check_interval_on_error values a preferences file sets here: one other
\* than the default 5 of DEFAULT_USER_CONFIG
CheckIntervals == {7}

\* The preferences load_user_config can return (notify_on flags and interval)
UserConfigs ==
    [ notify_on : [folder_errors : BOOLEAN, item_errors : BOOLEAN, conflicts : BOOLEAN],
      check_interval_on_error : CheckIntervals ]

EmptyDict == [k \in {} |-> ""]

\* One entry of data['errors']: a JSON object, or a JSON value that is no object
ErrObj(fields) == [obj |-> TRUE, val |-> fields]
ErrNonObj == [obj |-> FALSE, val |-> EmptyDict]

\* The event payloads the daemon sends here (the id is added when emitted)
EventShapes ==
    { [type |-> "StateChanged"],
      [type |-> "FolderErrors",
       data |-> [folder |-> "Docs", errors |-> <<ErrObj([error |-> "disk full"])>>]],
      [type |-> "FolderErrors",
       data |-> [folder |-> "Docs", errors |-> <<ErrNonObj>>]],
      [type |-> "ItemFinished",
       data |-> [folder |-> "Docs", item |-> "d/a.sync-conflict-1.txt"]],
      [type |-> "ItemFinished",
       data |-> [folder |-> "Docs", item |-> "d/a.sync-conflict-1.txt",
                 error |-> "denied"]],
      [type |-> "ItemFinished", data |-> [error |-> "denied"]],
      [data |-> [folder |-> "Docs"]] }

\* shape with  id  as its 'id' field
WithId(shape, id) ==
    [k \in (DOMAIN shape) \cup {"id"} |-> IF k = "id" THEN id ELSE shape[k]]

ConflictMarker == ".sync-conflict-"

\* ------------------------------------------------- classification of an event
\* Lines 202-222: the notification of a FolderErrors event with errors
FolderErrorIntent(data) ==
    LET folder == Get(data, "folder", "Unknown")
        errors == Get(data, "errors", <<>>)
        error_count == Len(errors)
        raw == Get(errors[1].val, "error", "Unknown error")
        first_error == IF Len(raw) > 100 THEN SubSeq(raw, 1, 97) \o "..." ELSE raw
    IN  [ key |-> <<"FolderError", folder, first_error>>,
          title |-> "Syncthing Folder Error",
          message |-> first_error,
          subtitle |-> "Folder: " \o folder \o " (" \o ToString(error_count)
                         \o " error(s))" ]

\* Lines 226-246: the notification of an ItemFinished event with an error
ItemErrorIntent(data) ==
    LET error == data["error"]
        item == Get(data, "item", "Unknown")
        folder == Get(data, "folder", "Unknown")
        name == PathName(item)
        item_name == IF Len(name) > 50 THEN SubSeq(name, 1, 47) \o "..." ELSE name
    IN  [ key |-> <<"ItemError", folder, item, error>>,
          title |-> "Syncthing Sync Error",
          message |-> IF Len(error) > 100 THEN SubSeq(error, 1, 100) ELSE error,
          subtitle |-> item_name \o " in " \o folder ]

\* Lines 250-265: the notification of an ItemFinished event on a conflict copy
ConflictIntent(data) ==
    LET item == Get(data, "item", "")
        folder == Get(data, "folder", "Unknown")
        item_name == PathName(item)
    IN  [ key |-> <<"Conflict", folder, item>>,
          title |-> "Syncthing Conflict",
          message |-> item_name,
          subtitle |-> "Folder: " \o folder ]

\* name in user_config['notify_on']: the subscript does not raise KeyError
HasFlag(config, name) == name \in DOMAIN config.notify_on

\* data.get('error') is truthy
HasError(data) == Get(data, "error", "") # ""

\* '.sync-conflict-' in data.get('item', '')
IsConflictPath(data) == Contains(Get(data, "item", ""), ConflictMarker)

\* A variant that enters the branch whatever the item_errors flag is
ItemBranchUngated(event_type, config) == event_type = "ItemFinished"

\* Line 225: the guard of the elif branch that handles ItemFinished
ItemBranch(event_type, config) ==
    event_type = "ItemFinished" /\ config.notify_on.item_errors

\* A variant in which the conflict check is an elif of the error check
ItemFinishedIntentsElif(data, config) ==
    IF HasError(data) THEN <<ItemErrorIntent(data)>>
    ELSE IF HasFlag(config, "conflicts") /\ config.notify_on.conflicts
            /\ IsConflictPath(data)
    THEN <<ConflictIntent(data)>> ELSE <<>>

\* Lines 226-265: inside the ItemFinished branch, the error check and then,
\* as a separate if, the conflict check (which builds nothing when reading its
\* flag raises: see Classify)
ItemFinishedIntents(data, config) ==
    (IF HasError(data) THEN <<ItemErrorIntent(data)>> ELSE <<>>)
    \o (IF HasFlag(config, "conflicts") /\ config.notify_on.conflicts
           /\ IsConflictPath(data)
        THEN <<ConflictIntent(data)>> ELSE <<>>)

\* Lines 197-265, the body of the for loop after the cursor assignment, as the
\* notifications it builds in order; raise = an exception leaves the loop body
\* before any of them is sent (KeyError on event['type'] or on the flag of line
\* 201 or line 225, AttributeError on errors[0].get when the entry is no
\* mapping); raiseAfter = the flag of line 249 raises KeyError, after the
\* ItemError notification of lines 228-246 went out.
Classify(event, config) ==
    IF "type" \notin DOMAIN event
    THEN [raise |-> TRUE, intents |-> <<>>, raiseAfter |-> FALSE]
    ELSE
    LET event_type == event["type"]
        data == Get(event, "data", EmptyDict)
    IN  IF event_type = "FolderErrors" /\ ~ HasFlag(config, "folder_errors")
        THEN [raise |-> TRUE, intents |-> <<>>, raiseAfter |-> FALSE]
        ELSE IF event_type = "FolderErrors" /\ config.notify_on.folder_errors
        THEN IF Len(Get(data, "errors", <<>>)) = 0
             THEN [raise |-> FALSE, intents |-> <<>>, raiseAfter |-> FALSE]
             ELSE IF ~ Get(data, "errors", <<>>)[1].obj
             THEN [raise |-> TRUE, intents |-> <<>>, raiseAfter |-> FALSE]
             ELSE [raise |-> FALSE, intents |-> <<FolderErrorIntent(data)>>,
                   raiseAfter |-> FALSE]
        ELSE IF event_type = "ItemFinished" /\ ~ HasFlag(config, "item_errors")
        THEN [raise |-> TRUE, intents |-> <<>>, raiseAfter |-> FALSE]
        ELSE IF ItemBranch(event_type, config)
        THEN [raise |-> FALSE, intents |-> ItemFinishedIntents(data, config),
              raiseAfter |-> ~ HasFlag(config, "conflicts")]
        ELSE [raise |-> FALSE, intents |-> <<>>, raiseAfter |-> FALSE]

\* ------------------------------------------------------------ notifier sink
\* What subprocess.run(['osascript', ...], check=True) can do: exit 0, exit
\* non-zero (CalledProcessError), or fail to start the command (OSError).
SinkOutcomes == {"ok", "nonzero", "nolaunch"}

\* send_notification: TRUE iff the call raises into its caller.  Only
\* CalledProcessError is caught (lines 129-132).
SendRaises(outcome) == outcome = "nolaunch"

\* A variant that never finds a key in the set
AlreadySeenNever(key, seen) == FALSE

\* Lines 214, 238, 257: dedup_key not in seen_notifications, negated
AlreadySeen(key, seen) == key \in seen

RECURSIVE DispatchAll(_, _, _, _, _)
\* The dedup checks and send_notification calls of one loop body: intents in
\* order, outcome outs[i] for the i-th call made.  Yields the new dedup set,
\* the calls made so far in this batch, and whether a call raised.
DispatchAll(intents, seen, disp, outs, id) ==
    IF Len(intents) = 0 THEN [seen |-> seen, disp |-> disp, raise |-> FALSE]
    ELSE LET n == Head(intents)
         IN  IF AlreadySeen(n.key, seen)
             THEN DispatchAll(Tail(intents), seen, disp, outs, id)
             ELSE LET o == Head(outs)
                      call == [ev |-> id, key |-> n.key, title |-> n.title,
                               message |-> n.message, subtitle |-> n.subtitle,
                               raised |-> SendRaises(o)]
                  IN  IF SendRaises(o)
                      THEN [seen |-> seen \cup {n.key}, disp |-> Append(disp, call),
                            raise |-> TRUE]
                      ELSE DispatchAll(Tail(intents), seen \cup {n.key},
                                       Append(disp, call), Tail(outs), id)

\* ------------------------------------------------------------------- actions
NoFile == [exists |-> FALSE, content |-> ""]

\* The positions at which the process is alive
Running == {"main", "loop", "fetching", "processing", "saving", "writing",
            "backoff", "errsleep"}

\* First start on a machine without a cursor file; the daemon has emitted nothing
Init ==
    /\ user_config \in UserConfigs
    /\ stream = <<>>
    /\ cursorFile = NoFile
    /\ pc = "main"
    /\ last_event_id = 0
    /\ reqSince = 0
    /\ events = <<>>
    /\ idx = 1
    /\ seen_notifications = {}
    /\ dispatched = <<>>
    /\ sleepDur = 0
    /\ startCursor = 0
    /\ handled = {}
    /\ begunPast = 0
    /\ durable = 0

\* The daemon emits its next event: ids are consecutive from 1.  The process
\* sees the stream only through the answer to a request, so the events are
\* emitted while a request is held open by the long poll.
Emit ==
    /\ pc = "fetching"
    /\ Len(stream) < MaxEvents
    /\ \E shape \in EventShapes :
          stream' = Append(stream, WithId(shape, Len(stream) + 1))
    /\ UNCHANGED << user_config, cursorFile, pc, last_event_id, reqSince,
                    events, idx, seen_notifications, dispatched, sleepDur,
                    startCursor, handled, begunPast, durable >>

\* main() up to the start of the while loop: the test notification, then
\* monitor_events' last_event_id = load_last_event_id().  A test notification
\* that raises is caught by main's handlers, which exit with status 1.
Startup ==
    /\ pc = "main"
    /\ \E o \in SinkOutcomes :
          IF SendRaises(o)
          THEN /\ pc' = "exited"
               /\ UNCHANGED << last_event_id, startCursor >>
          ELSE /\ pc' = "loop"
               /\ last_event_id' = load_last_event_id(cursorFile)
               /\ startCursor' = load_last_event_id(cursorFile)
    /\ UNCHANGED << user_config, stream, cursorFile, reqSince, events, idx,
                    seen_notifications, dispatched, sleepDur, handled,
                    begunPast, durable >>

\* A variant that always asks for the whole retained history
SinceParamZero(cursor) == 0

\* A variant that skips the event after the cursor
SinceParamNext(cursor) == cursor + 1

\* Line 181: the since= parameter of the request url
SinceParam(cursor) == cursor

\* Lines 181-182: the request is built from the running cursor and sent.  The
\* previous batch is not read again: events is assigned by this call and the
\* dedup set is replaced at line 193.
Request ==
    /\ pc = "loop"
    /\ pc' = "fetching"
    /\ reqSince' = SinceParam(last_event_id)
    /\ events' = <<>>
    /\ idx' = 1
    /\ seen_notifications' = {}
    /\ dispatched' = <<>>
    /\ UNCHANGED << user_config, stream, cursorFile, last_event_id, sleepDur,
                    startCursor, handled, begunPast, durable >>

\* The daemon's answer to since=n: its events with a greater id, ascending
EventsSince(n) == SelectSeq(stream, LAMBDA e : e.id > n)

\* make_request returns a non-empty list; line 193 starts a new dedup set
FetchBatch ==
    /\ pc = "fetching"
    /\ EventsSince(reqSince) # <<>>
    /\ events' = EventsSince(reqSince)
    /\ idx' = 1
    /\ seen_notifications' = {}
    /\ dispatched' = <<>>
    /\ pc' = "processing"
    /\ UNCHANGED << user_config, stream, cursorFile, last_event_id, reqSince,
                    sleepDur, startCursor, handled, begunPast, durable >>

\* make_request returns an empty list (the long poll timed out): continue
FetchEmpty ==
    /\ pc = "fetching"
    /\ EventsSince(reqSince) = <<>>
    /\ events' = <<>>
    /\ pc' = "loop"
    /\ UNCHANGED << user_config, stream, cursorFile, last_event_id, reqSince,
                    idx, seen_notifications, dispatched, sleepDur,
                    startCursor, handled, begunPast, durable >>

\* A variant that sleeps the fixed time of the except branch instead
FetchFailFixedSleep ==
    /\ pc = "fetching"
    /\ events' = <<>>
    /\ sleepDur' = ExceptionSleep
    /\ pc' = "backoff"
    /\ UNCHANGED << user_config, stream, cursorFile, last_event_id, reqSince,
                    idx, seen_notifications, dispatched, startCursor,
                    handled, begunPast, durable >>

\* make_request returns None (URLError or any other exception): sleep, continue
FetchFail ==
    /\ pc = "fetching"
    /\ events' = <<>>
    /\ sleepDur' = user_config.check_interval_on_error
    /\ pc' = "backoff"
    /\ UNCHANGED << user_config, stream, cursorFile, last_event_id, reqSince,
                    idx, seen_notifications, dispatched, startCursor,
                    handled, begunPast, durable >>

\* A variant that saves the cursor after every event
AfterBodySaveEach(i, n) == "saving"

\* Lines 195 and 268-269: after the loop body of the i-th of n events the for
\* loop takes the next event, or ends and the cursor is saved
AfterBody(i, n) == IF i = n THEN "saving" ELSE "processing"

\* One pass of the for loop body (lines 196-265) on events[idx].  An exception
\* in it is caught at line 276, which sleeps and falls back to the while loop.
ProcessEvent ==
    /\ pc = "processing"
    /\ idx <= Len(events)
    /\ LET event == events[idx]
           c == Classify(event, user_config)
       IN  /\ last_event_id' = event.id
           /\ idx' = idx + 1
           /\ IF c.raise
              THEN /\ pc' = "errsleep"
                   /\ sleepDur' = ExceptionSleep
                   /\ UNCHANGED << seen_notifications, dispatched, handled >>
              ELSE \E outs \in [1..2 -> SinkOutcomes] :
                     LET r == DispatchAll(c.intents, seen_notifications,
                                          dispatched, outs, event.id)
                     IN  /\ seen_notifications' = r.seen
                         /\ dispatched' = r.disp
                         /\ IF r.raise \/ c.raiseAfter
                            THEN /\ pc' = "errsleep"
                                 /\ sleepDur' = ExceptionSleep
                                 /\ UNCHANGED handled
                            ELSE /\ pc' = AfterBody(idx, Len(events))
                                 /\ handled' = handled \cup {event.id}
                                 /\ UNCHANGED sleepDur
    /\ UNCHANGED << user_config, stream, cursorFile, reqSince, events,
                    startCursor, begunPast, durable >>

\* save_last_event_id, lines 159-160: open(..., 'w') creates or truncates
SaveOpen ==
    /\ pc = "saving"
    /\ cursorFile' = OpenedForWrite
    /\ pc' = "writing"
    /\ UNCHANGED << user_config, stream, last_event_id, reqSince, events,
                    idx, seen_notifications, dispatched, sleepDur,
                    startCursor, handled, begunPast, durable >>

\* save_last_event_id, line 161 and the end of the with block
SaveWrite ==
    /\ pc = "writing"
    /\ cursorFile' = Written(last_event_id)
    /\ durable' = last_event_id
    /\ pc' = "loop"
    /\ UNCHANGED << user_config, stream, last_event_id, reqSince, events,
                    idx, seen_notifications, dispatched, sleepDur,
                    startCursor, handled, begunPast >>

\* time.sleep returns (line 186 then continue, or line 278) and the while loop
\* starts over; what is left of an abandoned batch is not read again
Wake ==
    /\ pc \in {"backoff", "errsleep"}
    /\ pc' = "loop"
    /\ sleepDur' = 0
    /\ events' = <<>>
    /\ idx' = 1
    /\ seen_notifications' = {}
    /\ dispatched' = <<>>
    /\ UNCHANGED << user_config, stream, cursorFile, last_event_id, reqSince,
                    startCursor, handled, begunPast, durable >>

\* The process ends at position  how : its memory is gone; last_event_id keeps
\* the value the running cursor had at that moment.
Ends(how) ==
    /\ pc' = how
    /\ events' = <<>>
    /\ idx' = 1
    /\ seen_notifications' = {}
    /\ dispatched' = <<>>
    /\ sleepDur' = 0
    /\ reqSince' = 0
    /\ startCursor' = 0
    /\ UNCHANGED << user_config, stream, cursorFile, last_event_id, handled,
                    begunPast, durable >>

\* SIGINT or SIGTERM: signal_handler calls sys.exit(0).  The SystemExit it
\* raises is neither a KeyboardInterrupt nor an Exception, so no handler of
\* monitor_events or main catches it and nothing is saved on the way out.
\* (The save of lines 271-275 needs a KeyboardInterrupt, which only the default
\* SIGINT handler raises; main replaces that handler at line 298.)
Signal ==
    /\ pc \in Running
    /\ Ends("stopped")

\* The process is killed or the machine loses power
Crash ==
    /\ pc \in Running
    /\ Ends("crashed")

\* The process is started again
Restart ==
    /\ pc \in {"stopped", "crashed", "exited"}
    /\ pc' = "main"
    /\ last_event_id' = 0
    /\ begunPast' = IF last_event_id > begunPast THEN last_event_id ELSE begunPast
    /\ UNCHANGED << user_config, stream, cursorFile, reqSince, events, idx,
                    seen_notifications, dispatched, sleepDur, startCursor,
                    handled, durable >>

Next ==
    \/ Emit
    \/ Startup
    \/ Request
    \/ FetchBatch
    \/ FetchEmpty
    \/ FetchFail
    \/ ProcessEvent
    \/ SaveOpen
    \/ SaveWrite
    \/ Wake
    \/ Signal
    \/ Crash
    \/ Restart

Spec == Init /\ [][Next]_vars

\* ----------------------------------------------------------------- properties
\* events[i] has been through the loop body in the current batch and the body
\* ran to its end (no exception left it)
Done(i) == i < idx /\ ~ (pc = "errsleep" /\ i = idx - 1)

\* The categories of the send_notification calls made for event  id , in order
CallCats(id) ==
    LET calls == SelectSeq(dispatched, LAMBDA c : c.ev = id)
    IN  [k \in 1..Len(calls) |-> calls[k].key[1]]

\* The dedup keys of the calls made in this batch for events before  id
KeysBefore(id) == {dispatched[k].key : k \in {j \in 1..Len(dispatched) : dispatched[j].ev < id}}

\* e without its id
Payload(e) == [k \in (DOMAIN e) \ {"id"} |-> e[k]]

\* C1: among the notifications dispatched while one batch is processed, no two
\* have the same dedup key.
C1_NoDuplicateKeyInBatch ==
    \A i, j \in 1..Len(dispatched) :
        i # j => dispatched[i].key # dispatched[j].key

\* C1 witness: two events of one batch with the same payload went through the
\* loop body, the payload notifies, and one notification was dispatched.
C1_Witness ==
    /\ pc \in {"processing", "saving"}
    /\ \E i, j \in 1..(idx - 1) :
          /\ i < j
          /\ Payload(events[i]) = Payload(events[j])
          /\ Classify(events[i], user_config).intents # <<>>
    /\ Len(dispatched) = 1

\* C2: once a cancellation signal has stopped the process, the cursor file
\* holds the last value assigned to the running cursor.
C2_SignalPersistsCursor ==
    pc = "stopped" => load_last_event_id(cursorFile) = last_event_id

\* C3: every event whose id is at most the persisted cursor has been through
\* the whole loop body: classified, and each notification it yields either
\* handed to the sink or dropped as a within-batch duplicate.
C3_AtLeastOnce ==
    \A id \in 1..load_last_event_id(cursorFile) : id \in handled

IsErrorOnConflictCopy(e) ==
    /\ "type" \in DOMAIN e
    /\ e["type"] = "ItemFinished"
    /\ HasError(Get(e, "data", EmptyDict))
    /\ IsConflictPath(Get(e, "data", EmptyDict))

\* An ItemFinished event without error on a conflict copy
IsCleanConflictCopy(e) ==
    /\ "type" \in DOMAIN e
    /\ e["type"] = "ItemFinished"
    /\ ~ HasError(Get(e, "data", EmptyDict))
    /\ IsConflictPath(Get(e, "data", EmptyDict))

\* C5 as stated: processing an ItemFinished event with an error and a
\* conflict-marker path yields exactly one notification, an ItemError, under
\* every preference setting (here: for the first such event of a batch).
C5_ErrorSuppressesConflict ==
    \A i \in 1..(idx - 1) :
        ( /\ Done(i)
          /\ IsErrorOnConflictCopy(events[i])
          /\ KeysBefore(events[i].id) = {} )
        => CallCats(events[i].id) = <<"ItemError">>

\* The categories the loop body sends for an error-on-conflict-copy event e:
\* nothing unless item_errors is set; then ItemError, and after it Conflict if
\* conflicts is set too; each unless its key was already sent in the batch.
ExpectedCatsOnConflictError(e) ==
    LET data == Get(e, "data", EmptyDict)
        flags == user_config.notify_on
    IN  (IF flags.item_errors /\ ItemErrorIntent(data).key \notin KeysBefore(e.id)
         THEN <<"ItemError">> ELSE <<>>)
        \o (IF flags.item_errors /\ flags.conflicts
               /\ ConflictIntent(data).key \notin KeysBefore(e.id)
            THEN <<"Conflict">> ELSE <<>>)

\* C5 amended: for such an event whose loop body ran to its end, the
\* notifications sent are exactly ExpectedCatsOnConflictError: with both flags
\* set the one event yields an ItemError and then a Conflict notification.
C5_ErrorAndConflictBothNotify ==
    \A i \in 1..(idx - 1) :
        (Done(i) /\ IsErrorOnConflictCopy(events[i]))
        => CallCats(events[i].id) = ExpectedCatsOnConflictError(events[i])

\* C5 witness: one such event produced an ItemError and a Conflict notification
C5_Witness ==
    \E i \in 1..(idx - 1) :
        /\ Done(i)
        /\ IsErrorOnConflictCopy(events[i])
        /\ CallCats(events[i].id) = <<"ItemError", "Conflict">>

\* C6: with notify_on.conflicts set, an ItemFinished event without error on a
\* conflict copy is notified as a Conflict in its batch, whatever the other
\* flags are.
C6_ConflictGatedByOwnFlag ==
    \A i \in 1..(idx - 1) :
        ( /\ Done(i)
          /\ IsCleanConflictCopy(events[i])
          /\ user_config.notify_on.conflicts )
        => ConflictIntent(events[i]["data"]).key \in seen_notifications

\* C7 as stated: a failed fetch sleeps the configured interval with the cursor
\* where the request found it and nothing dispatched, and the configured
\* interval is the only delay the loop ever sleeps.
C7_ConfiguredIntervalIsOnlyDelay ==
    /\ pc = "backoff" =>
          /\ sleepDur = user_config.check_interval_on_error
          /\ last_event_id = reqSince
          /\ dispatched = <<>>
    /\ pc \in {"backoff", "errsleep"} =>
          sleepDur = user_config.check_interval_on_error

\* C7 amended: a failed fetch sleeps the configured interval and leaves the
\* running cursor, the cursor file and the dispatched notifications as they
\* were; the cursor is the since value of the failed request, stays so through
\* the sleep, and the next request is built from it.  The sleep after an
\* exception in the loop body is the fixed ExceptionSleep instead.
C7_FetchFailureBackoff ==
    [][ /\ (pc = "fetching" /\ pc' = "backoff") =>
              /\ sleepDur' = user_config.check_interval_on_error
              /\ last_event_id' = last_event_id
              /\ last_event_id' = reqSince'
              /\ cursorFile' = cursorFile
              /\ dispatched' = dispatched
        /\ (pc = "backoff" /\ pc' = "loop") =>
              /\ last_event_id' = reqSince
              /\ cursorFile' = cursorFile
              /\ dispatched' = <<>>
        /\ (pc = "loop" /\ pc' = "fetching") => reqSince' = last_event_id
        /\ pc' = "errsleep" => sleepDur' = ExceptionSleep
      ]_vars

\* C7 witness: the loop sleeps after a failed fetch made with a cursor above 0
C7_Witness ==
    /\ pc = "backoff"
    /\ reqSince > 0
    /\ durable > 0

\* C8: after a crash, loading the cursor file yields the value of the last
\* completed save or the value the running cursor had (the one a save cut
\* short by the crash was writing), never anything else.
C8_SaveIsCrashAtomic ==
    pc = "crashed" => load_last_event_id(cursorFile) \in {durable, last_event_id}

\* An event that lacks type, data, folder, item (for ItemFinished) or whose
\* first errors entry is no object with an error field
IsMalformed(e) ==
    \/ "type" \notin DOMAIN e
    \/ "data" \notin DOMAIN e
    \/ "folder" \notin DOMAIN e["data"]
    \/ (e["type"] = "ItemFinished" /\ "item" \notin DOMAIN e["data"])
    \/ /\ "errors" \in DOMAIN e["data"]
       /\ Len(e["data"]["errors"]) > 0
       /\ \/ ~ e["data"]["errors"][1].obj
          \/ "error" \notin DOMAIN e["data"]["errors"][1].val

\* The last send_notification call was made for event  id  and raised
SinkRaisedFor(id) ==
    /\ dispatched # <<>>
    /\ dispatched[Len(dispatched)].ev = id
    /\ dispatched[Len(dispatched)].raised

\* C9: an event with missing fields never aborts its batch: unless the sink
\* raised, the loop body runs to its end for it.
C9_MalformedEventNeverAborts ==
    \A i \in 1..(idx - 1) :
        (IsMalformed(events[i]) /\ ~ SinkRaisedFor(events[i].id)) => Done(i)

\* C10: no failure of the notifier sink leaves send_notification: no call
\* made for a batch raises into the loop.
C10_SinkFailureSwallowed ==
    \A k \in 1..Len(dispatched) : ~ dispatched[k].raised

\* ------------------------------------------------ the cursor store on its own
\* Largest cursor value handed to save_last_event_id in SpecStore
MaxCursor == 120

\* File contents no save_last_event_id wrote and int() rejects (ValueError)
CorruptContents == {"", "abc", "4.5", "12x", "0x1F", "1 2", "+", "- 7"}

\* File contents int() accepts after strip(): as a save leaves them, or edited
\* by hand with surrounding white space or a sign
IntegerContents == {"12", " 12\n", "+12", "007"}

\* The states LAST_EVENT_ID_PATH can be found in when the process reaches it
StoreFiles ==
    {NoFile} \cup
    {[exists |-> TRUE, content |-> c] : c \in CorruptContents \cup IntegerContents}

\* The cursor store exercised alone: the process is either about to start with
\* the file in any of StoreFiles, or at line 269 about to save a cursor of
\* 0..MaxCursor over such a file.  The daemon's stream is left out.
InitStore ==
    /\ user_config \in UserConfigs
    /\ stream = <<>>
    /\ cursorFile \in StoreFiles
    /\ pc \in {"main", "saving"}
    /\ last_event_id \in (IF pc = "saving" THEN 0..MaxCursor ELSE {0})
    /\ reqSince = 0
    /\ events = <<>>
    /\ idx = 1
    /\ seen_notifications = {}
    /\ dispatched = <<>>
    /\ sleepDur = 0
    /\ startCursor = 0
    /\ handled = {}
    /\ begunPast = 0
    /\ durable = 0

\* save_last_event_id, a crash at any point, a restart, and the load of line 168
NextStore ==
    \/ SaveOpen
    \/ SaveWrite
    \/ Crash
    \/ Restart
    \/ Startup

SpecStore == InitStore /\ [][NextStore]_vars

C12_Resumption ==
    [][ /\ (pc = "main" /\ pc' = "loop") =>
              last_event_id' = load_last_event_id(cursorFile)
        /\ (pc = "processing" /\ pc' \in Running) =>
              last_event_id' = events[idx].id
        /\ (pc \in Running \ {"main", "processing"} /\ pc' \in Running) =>
              last_event_id' = last_event_id
        /\ (pc = "loop" /\ pc' = "fetching") => reqSince' = last_event_id
      ]_vars

\* C12 witness: a run that loaded a cursor above 0 has entered the loop body of
\* a later event and sent its next request with that event's id
C12_Witness ==
    /\ pc = "fetching"
    /\ startCursor > 0
    /\ reqSince > startCursor
    /\ reqSince = Len(stream)

\* ------------------------------------------- long messages and long file names
RECURSIVE Pad(_)
\* A text of n characters
Pad(n) == IF n = 0 THEN "" ELSE Pad(n - 1) \o "x"

\* Line 209 and line 242: the length above which a message is cut
MessageLimit == 100

\* Line 233: the length above which a displayed file name is cut
NameLimit == 50

\* Two error messages of 101 characters that differ after their 97th only
LongErrorA == Pad(97) \o "aaaa"
LongErrorB == Pad(97) \o "bbbb"

\* Event payloads whose texts are at or above the limits of lines 209, 233 and
\* 242, and two failing items of one folder with the same error
LongShapes ==
    { [type |-> "FolderErrors",
       data |-> [folder |-> "Docs", errors |-> <<ErrObj([error |-> LongErrorA])>>]],
      [type |-> "FolderErrors",
       data |-> [folder |-> "Docs", errors |-> <<ErrObj([error |-> LongErrorB])>>]],
      [type |-> "FolderErrors",
       data |-> [folder |-> "Docs", errors |-> <<ErrObj([error |-> Pad(100)])>>]],
      [type |-> "ItemFinished",
       data |-> [folder |-> "Docs", item |-> "d/" \o Pad(51), error |-> LongErrorA]],
      [type |-> "ItemFinished",
       data |-> [folder |-> "Docs", item |-> "d/" \o Pad(40) \o ".sync-conflict-1"]],
      [type |-> "ItemFinished",
       data |-> [folder |-> "Docs", item |-> "d/b.txt", error |-> "denied"]],
      [type |-> "ItemFinished",
       data |-> [folder |-> "Docs", item |-> "d/c.txt", error |-> "denied"]] }

\* First start without a cursor file, every category enabled (the defaults)
InitLong ==
    /\ user_config \in {c \in UserConfigs :
            /\ c.notify_on.folder_errors
            /\ c.notify_on.item_errors
            /\ c.notify_on.conflicts}
    /\ stream = <<>>
    /\ cursorFile = NoFile
    /\ pc = "main"
    /\ last_event_id = 0
    /\ reqSince = 0
    /\ events = <<>>
    /\ idx = 1
    /\ seen_notifications = {}
    /\ dispatched = <<>>
    /\ sleepDur = 0
    /\ startCursor = 0
    /\ handled = {}
    /\ begunPast = 0
    /\ durable = 0

\* The daemon emits its next event, one of LongShapes
EmitLong ==
    /\ pc = "fetching"
    /\ Len(stream) < MaxEvents
    /\ \E shape \in LongShapes :
          stream' = Append(stream, WithId(shape, Len(stream) + 1))
    /\ UNCHANGED << user_config, cursorFile, pc, last_event_id, reqSince,
                    events, idx, seen_notifications, dispatched, sleepDur,
                    startCursor, handled, begunPast, durable >>

\* One uninterrupted run of the monitor loop on such a stream
NextLong ==
    \/ EmitLong
    \/ Startup
    \/ Request
    \/ FetchBatch
    \/ FetchEmpty
    \/ ProcessEvent
    \/ SaveOpen
    \/ SaveWrite
    \/ Wake

SpecLong == InitLong /\ [][NextLong]_vars

\* shown is raw as the claim wants it displayed under a limit: unchanged when
\* raw is within the limit, else at most limit long and ending with '...'
CutWithEllipsis(raw, shown, limit) ==
    IF Len(raw) > limit
    THEN /\ Len(shown) <= limit
         /\ Len(shown) >= 3
         /\ SubSeq(shown, Len(shown) - 2, Len(shown)) = "..."
    ELSE shown = raw

\* The data of the event a send_notification call was made for
CallData(c) == Get(stream[c.ev], "data", EmptyDict)

\* The file name an ItemError call displays: its subtitle is "<name> in <folder>"
ShownItemName(c) ==
    SubSeq(c.subtitle, 1,
           Len(c.subtitle) - Len(" in " \o Get(CallData(c), "folder", "Unknown")))

\* C13: in every dispatched notification the FolderError message (limit 100),
\* the ItemError body (limit 100) and the displayed item name of an ItemError
\* or a Conflict (limit 50) are unchanged when within the limit, else cut to at
\* most the limit and ending with '...'.
C13_TruncationWithEllipsis ==
    \A k \in 1..Len(dispatched) :
        LET c == dispatched[k]
            data == CallData(c)
        IN  /\ c.key[1] = "FolderError" =>
                 CutWithEllipsis(Get(data["errors"][1].val, "error", "Unknown error"),
                                 c.message, MessageLimit)
            /\ c.key[1] = "ItemError" =>
                 /\ CutWithEllipsis(data["error"], c.message, MessageLimit)
                 /\ CutWithEllipsis(PathName(Get(data, "item", "Unknown")),
                                    ShownItemName(c), NameLimit)
            /\ c.key[1] = "Conflict" =>
                 CutWithEllipsis(PathName(Get(data, "item", "")), c.message, NameLimit)

\* The notify_on flag of a notification category
FlagOf(category) ==
    CASE category = "FolderError" -> "folder_errors"
      [] category = "ItemError" -> "item_errors"
      [] category = "Conflict" -> "conflicts"

\* C14: no notification of a category whose notify_on flag is false is ever
\* dispatched, and an event of a type other than FolderErrors and ItemFinished
\* dispatches nothing while the running cursor still advances to its id.
C14_DisabledCategoryNeverNotifies ==
    /\ \A k \in 1..Len(dispatched) :
          user_config.notify_on[FlagOf(dispatched[k].key[1])]
    /\ \A i \in 1..(idx - 1) :
          ("type" \in DOMAIN events[i]
             /\ events[i]["type"] \notin {"FolderErrors", "ItemFinished"})
          => /\ CallCats(events[i].id) = <<>>
             /\ Done(i)
             /\ (i = idx - 1 => last_event_id = events[i].id)

\* C14 witness: with folder_errors off, a batch of a FolderErrors event that
\* carries an error and a StateChanged event went through the loop; nothing was
\* dispatched and the running cursor is the id of the StateChanged event.
C14_Witness ==
    /\ pc = "saving"
    /\ idx = 3
    /\ ~ user_config.notify_on.folder_errors
    /\ events[1]["type"] = "FolderErrors"
    /\ events[1]["data"]["errors"][1].obj
    /\ events[2]["type"] = "StateChanged"
    /\ dispatched = <<>>
    /\ last_event_id = events[2].id

\* ------------------------------------------------------- the preferences file
\* Lines 28-37, the fields the monitor loop reads (version and
\* notification_sound are read nowhere in it)
DEFAULT_USER_CONFIG ==
    [ notify_on |-> [folder_errors |-> TRUE, item_errors |-> TRUE, conflicts |-> TRUE],
      check_interval_on_error |-> 5 ]

\* Lines 94-95: merged = DEFAULT_USER_CONFIG.copy(); merged.update(config).
\* dict.update replaces the value of every top-level key config has.
Merged(defaults, config) ==
    [k \in (DOMAIN defaults) \cup (DOMAIN config) |->
        IF k \in DOMAIN config THEN config[k] ELSE defaults[k]]

\* USER_CONFIG_PATH: absent, present with text json.load rejects, or present
\* with a JSON object
NoPrefFile == [exists |-> FALSE, parses |-> FALSE, config |-> EmptyDict]
BadPrefFile == [exists |-> TRUE, parses |-> FALSE, config |-> EmptyDict]
PrefFile(config) == [exists |-> TRUE, parses |-> TRUE, config |-> config]

\* load_user_config() on a given state of the preferences file
load_user_config(file) ==
    IF file.exists
    THEN IF file.parses THEN Merged(DEFAULT_USER_CONFIG, file.config)
         ELSE DEFAULT_USER_CONFIG                 \* except Exception
    ELSE DEFAULT_USER_CONFIG

\* The preferences files of SpecPrefs: none, an unreadable one, a complete one,
\* and objects that leave out top-level fields or flags inside notify_on
PrefFiles ==
    { NoPrefFile,
      BadPrefFile,
      PrefFile(EmptyDict),
      PrefFile([check_interval_on_error |-> 7]),
      PrefFile([notify_on |-> [folder_errors |-> TRUE, item_errors |-> TRUE,
                               conflicts |-> FALSE],
                check_interval_on_error |-> 7]),
      PrefFile([notify_on |-> [folder_errors |-> FALSE]]),
      PrefFile([notify_on |-> [folder_errors |-> FALSE, item_errors |-> TRUE]]),
      PrefFile([notify_on |-> [conflicts |-> FALSE]]) }

\* First start without a cursor file, with the preferences main() got from
\* load_user_config (line 305) for one of PrefFiles
InitPrefs ==
    /\ \E file \in PrefFiles : user_config = load_user_config(file)
    /\ stream = <<>>
    /\ cursorFile = NoFile
    /\ pc = "main"
    /\ last_event_id = 0
    /\ reqSince = 0
    /\ events = <<>>
    /\ idx = 1
    /\ seen_notifications = {}
    /\ dispatched = <<>>
    /\ sleepDur = 0
    /\ startCursor = 0
    /\ handled = {}
    /\ begunPast = 0
    /\ durable = 0

\* One uninterrupted run of the monitor loop with such preferences
NextPrefs ==
    \/ Emit
    \/ Startup
    \/ Request
    \/ FetchBatch
    \/ FetchEmpty
    \/ FetchFail
    \/ ProcessEvent
    \/ SaveOpen
    \/ SaveWrite
    \/ Wake

SpecPrefs == InitPrefs /\ [][NextPrefs]_vars

\* C15: whatever the stored preferences file, the preferences in use have
\* every field of the defaults, every flag of notify_on included, and the loop
\* body fails on no event for reading a flag: it is left early only by a
\* malformed event or a raising sink.
C15_EveryDefaultFieldPresent ==
    /\ DOMAIN DEFAULT_USER_CONFIG \subseteq DOMAIN user_config
    /\ DOMAIN DEFAULT_USER_CONFIG.notify_on \subseteq DOMAIN user_config.notify_on
    /\ pc = "errsleep" =>
          \/ IsMalformed(events[idx - 1])
          \/ SinkRaisedFor(events[idx - 1].id)

\* C16: the cursor file is written only by the one save that follows the loop
\* body of the last event of a non-empty batch whose every body ran to its end,
\* and that save writes the id of the batch's last event: a batch that reaches
\* its end goes to the save, the save runs once and the loop then sends its
\* next request; no step between two events of a batch, and no step after an
\* empty answer or a failed fetch, touches the file.
C16_PersistOncePerBatch ==
    [][ /\ cursorFile' # cursorFile =>
              /\ pc \in {"saving", "writing"}
              /\ events # <<>>
              /\ idx = Len(events) + 1
              /\ \A i \in 1..Len(events) : Done(i)
        /\ (pc = "processing" /\ idx = Len(events) /\ pc' \in Running) =>
              pc' \in {"saving", "errsleep"}
        /\ (pc = "processing" /\ idx < Len(events) /\ pc' \in Running) =>
              pc' \in {"processing", "errsleep"}
        /\ (pc = "saving" /\ pc' \in Running) => pc' = "writing"
        /\ (pc = "writing" /\ pc' \in Running) =>
              /\ pc' = "loop"
              /\ cursorFile' = Written(events[Len(events)].id)
        /\ (pc \in {"loop", "backoff", "errsleep"} /\ pc' \in Running) =>
              pc' \in {"loop", "fetching"}
        /\ (pc = "fetching" /\ pc' \in Running) =>
              pc' \in {"fetching", "processing", "loop", "backoff"}
      ]_vars

\* C16 witness: a batch of two events, one of which notified, was processed to
\* its end and the save after it has written the id of the second event
C16_Witness ==
    /\ pc = "loop"
    /\ Len(events) = 2
    /\ idx = 3
    /\ dispatched # <<>>
    /\ cursorFile = Written(events[2].id)
    /\ durable = events[2].id

\* --------------------------------------------------------- the loop left alone
\* The payloads of EventShapes that carry a type (every event carries an id)
TypedShapes == {shape \in EventShapes : "type" \in DOMAIN shape}

\* The daemon emits its next event, one that carries id and type
EmitTyped ==
    /\ pc = "fetching"
    /\ Len(stream) < MaxEvents
    /\ \E shape \in TypedShapes :
          stream' = Append(stream, WithId(shape, Len(stream) + 1))
    /\ UNCHANGED << user_config, cursorFile, pc, last_event_id, reqSince,
                    events, idx, seen_notifications, dispatched, sleepDur,
                    startCursor, handled, begunPast, durable >>

\* One run that no signal and no crash ends
NextLive ==
    \/ EmitTyped
    \/ Startup
    \/ Request
    \/ FetchBatch
    \/ FetchEmpty
    \/ FetchFail
    \/ ProcessEvent
    \/ SaveOpen
    \/ SaveWrite
    \/ Wake

\* The process is a sequential program that keeps running: each statement it
\* has reached is executed, every time.sleep returns, and make_request, which
\* may fail any number of times, does not fail forever.  The daemon is under
\* no obligation: it may emit its events at any time or stay silent.
SpecLive ==
    /\ Init
    /\ [][NextLive]_vars
    /\ WF_vars(Startup \/ Request \/ ProcessEvent \/ SaveOpen \/ SaveWrite \/ Wake)
    /\ SF_vars(FetchBatch \/ FetchEmpty)

\* C17: when every event carries id and type and fetches do not fail forever,
\* every event the daemon has emitted is eventually followed by a state in
\* which the persisted cursor is at least its id.
C17_EveryEventEventuallyPersisted ==
    \A id \in 1..MaxEvents :
        (Len(stream) >= id) ~> (load_last_event_id(cursorFile) >= id)

\* The process executes monitor_events (it is past main's start-up)
InLoop == pc \in Running \ {"main"}

\* C18: the persisted cursor never decreases over fetches, failures, stops and
\* restarts: whenever the process is down or about to start, the cursor file
\* loads as at least every value a completed save has written; and within one
\* run the running cursor is never below the value the run started from, the
\* since value of its last request, or the persisted cursor.
C18_MonotonicCursor ==
    /\ ~ InLoop => load_last_event_id(cursorFile) >= durable
    /\ InLoop =>
          /\ last_event_id >= startCursor
          /\ last_event_id >= reqSince
          /\ last_event_id >= load_last_event_id(cursorFile)

\* What tells one condition of a category from another, read from the event's
\* data: folder and full first error message for a FolderError, folder, item
\* path and error for an ItemError, folder and item path for a Conflict
Distinguishing(category, data) ==
    CASE category = "FolderError" ->
            << Get(data, "folder", "Unknown"),
               Get(data["errors"][1].val, "error", "Unknown error") >>
      [] category = "ItemError" ->
            << Get(data, "folder", "Unknown"), Get(data, "item", "Unknown"),
               data["error"] >>
      [] category = "Conflict" ->
            << Get(data, "folder", "Unknown"), Get(data, "item", "") >>

\* The categories event e is to notify under the preferences in use
CatsOf(e) ==
    LET intents == Classify(e, user_config).intents
    IN  {intents[k].key[1] : k \in 1..Len(intents)}

\* C19: a notification is suppressed only if an earlier event of the same
\* batch produced a notification of the same category with the same folder and
\* the same distinguishing field (the full first error message, or the item
\* path, with the error for an ItemError): so two items with the same error
\* both notify, and so do two FolderErrors events of one folder whose first
\* error messages differ.
C19_DedupNeverOverMerges ==
    \A i \in 1..(idx - 1) : \A category \in CatsOf(events[i]) :
        ( /\ Done(i)
          /\ \A k \in 1..Len(dispatched) :
                ~ (dispatched[k].ev = events[i].id /\ dispatched[k].key[1] = category) )
        => \E k \in 1..Len(dispatched) :
              /\ dispatched[k].ev < events[i].id
              /\ dispatched[k].key[1] = category
              /\ Distinguishing(category, CallData(dispatched[k]))
                   = Distinguishing(category, Get(events[i], "data", EmptyDict))

====
